---- MODULE Spec2Model ----
(***************************************************************************)
(* A model of the ray caster in src/src/main.rs: the Vector algebra with   *)
(* its cached magnitude, the Canvas, Ray, Sphere::collides_with,           *)
(* Camera::cast_ray and the pixel loop of Camera::raytrace.                *)
(*                                                                         *)
(* Numbers.  The program computes in f64.  The model computes in the       *)
(* integers, on which f64 addition, subtraction and multiplication are     *)
(* exact for the magnitudes used here.  The two operations that leave the  *)
(* integers, sqrt and division, are modelled by Sqrt (the integer part of  *)
(* the root) and Quot (the quotient truncated toward zero); they agree     *)
(* with f64 exactly when the radicand is a perfect square and the division *)
(* leaves no remainder.  Every action that reads the result of a sqrt or a *)
(* division is guarded by the matching ...Exact predicate, so the model    *)
(* only takes steps on which integer and f64 arithmetic coincide.          *)
(***************************************************************************)
EXTENDS Integers, Sequences, FiniteSets, TLC

(* ------------------------------ bounds -------------------------------- *)

\* Vector components explored by the Vector state machine: -MaxComp..MaxComp
MaxComp == 2
\* largest cached magnitude the Vector state machine lets mult build up
MaxMag == 4
\* Canvas sides explored by the Canvas state machine: 1..MaxDim
MaxDim == 2
\* sphere centre coordinates of the intersection machine: -MaxCoord..MaxCoord
MaxCoord == 5
\* sphere radii: 1..MaxRadius
MaxRadius == 3
\* light distances handed to cast_ray: 0..MaxLightDistance
MaxLightDistance == 12
\* length of the object list handed to cast_ray / held by the Scene
MaxObjects == 2
\* length of the Scene's light list
MaxLights == 2
\* pixels per side of the Camera: 1..MaxPixels
MaxPixels == 2

(* --------------------------- f64 arithmetic --------------------------- *)

Abs(a) == IF a < 0 THEN 0 - a ELSE a

\* f64::sqrt on a non-negative integer: exact on perfect squares, otherwise
\* its integer part
RECURSIVE SqrtFrom(_, _)
\* the least r from r0 on with (r + 1)^2 > a
SqrtFrom(r0, a) == IF (r0 + 1) * (r0 + 1) > a THEN r0 ELSE SqrtFrom(r0 + 1, a)

Sqrt(a) == SqrtFrom(0, a)

IsSquare(a) == a >= 0 /\ Sqrt(a) * Sqrt(a) = a

\* f64 division a / b for b # 0: exact when b divides a, otherwise truncated
Quot(a, b) ==
    LET q == Abs(a) \div Abs(b)
    IN IF (a < 0) = (b < 0) THEN q ELSE 0 - q

Divides(b, a) == b # 0 /\ Quot(a, b) * b = a

(* ------------------------------- Pixel -------------------------------- *)

U8Max == 255

Pixel_white == [colour |-> 255]

Pixel_black == [colour |-> 0]

(* ------------------------------- Vector ------------------------------- *)

\* sqrt(x*x + y*y + z*z) as the mutators recompute it
Norm(x, y, z) == Sqrt((x * x) + (y * y) + (z * z))

NormExact(x, y, z) == IsSquare((x * x) + (y * y) + (z * z))

Vector_new(x, y, z) == [x |-> x, y |-> y, z |-> z, n |-> 1]

Vector_cross(self, other) ==
    LET new_x == (self.y * other.z) - (self.z * other.y)
        new_y == (self.z * other.x) - (self.x * other.z)
        new_z == (self.x * other.y) - (self.y * other.x)
    IN [x |-> new_x, y |-> new_y, z |-> new_z, n |-> Norm(new_x, new_y, new_z)]

Vector_dot(self, other) ==
    (self.x * other.x) + (self.y * other.y) + (self.z * other.z)

Vector_add(self, other) ==
    LET x == self.x + other.x
        y == self.y + other.y
        z == self.z + other.z
    IN [x |-> x, y |-> y, z |-> z, n |-> Norm(x, y, z)]

Vector_minus(self, other) ==
    LET x == self.x - other.x
        y == self.y - other.y
        z == self.z - other.z
    IN [x |-> x, y |-> y, z |-> z, n |-> Norm(x, y, z)]

Vector_mult(self, magnitude) ==
    [x |-> self.x * magnitude, y |-> self.y * magnitude,
     z |-> self.z * magnitude, n |-> Abs(self.n * magnitude)]

\* defined for self.n # 0 (the program yields NaN or infinity otherwise)
Vector_normalise(self) ==
    [x |-> Quot(self.x, self.n), y |-> Quot(self.y, self.n),
     z |-> Quot(self.z, self.n), n |-> 1]

NormaliseExact(self) ==
    /\ Divides(self.n, self.x)
    /\ Divides(self.n, self.y)
    /\ Divides(self.n, self.z)

Vector_magnitude(self) == self.n

Vector_set(self, x, y, z) == [x |-> x, y |-> y, z |-> z, n |-> Norm(x, y, z)]

Vector_set_as(self, other) ==
    [x |-> other.x, y |-> other.y, z |-> other.z, n |-> other.n]

\* the components of a vector, without the cached magnitude
Components(v) == <<v.x, v.y, v.z>>

(* ------------------------------- Canvas ------------------------------- *)

\* Vec<Vec<Pixel>>: `height` rows, each of `width` pixels.  A Vec is a
\* sequence; index i of the program is position i + 1 of the sequence.
Canvas_new(width, height) ==
    [width |-> width, height |-> height,
     data |-> [i \in 1..height |-> [j \in 1..width |-> Pixel_white]]]

\* Option<&Pixel>: <<>> is None, <<p>> is Some(p).  Vec::get(i) is Some
\* exactly when i < len.
Canvas_get(self, x, y) ==
    IF x < Len(self.data)
    THEN IF y < Len(self.data[x + 1]) THEN <<self.data[x + 1][y + 1]>> ELSE <<>>
    ELSE <<>>

Canvas_get_mut(self, x, y) ==
    IF x < Len(self.data)
    THEN IF y < Len(self.data[x + 1]) THEN <<self.data[x + 1][y + 1]>> ELSE <<>>
    ELSE <<>>

\* the canvas after ink(x, y, intensity) and the bool it returns
Canvas_ink(self, x, y, intensity) ==
    IF Canvas_get_mut(self, x, y) # <<>>
    THEN [canvas |-> [self EXCEPT !.data[x + 1][y + 1].colour = intensity],
          ret |-> TRUE]
    ELSE [canvas |-> self, ret |-> FALSE]

(* -------------------------------- Ray --------------------------------- *)

Ray_new(origin, direction) == [origin |-> origin, direction |-> direction]

Ray_shine_to(self, distance) ==
    LET result == self.origin
        cast == Vector_mult(self.direction, distance)
    IN Vector_add(result, cast)

(* ------------------------------- Sphere ------------------------------- *)

Sphere_new(position, radius) == [position |-> position, radius |-> radius]

\* `indicator` of collides_with: (l . (o - c))^2 - (|o - c|^2 - r^2)
Indicator(self, ray) ==
    LET l == Vector_normalise(ray.direction)
        o_minus_c == Vector_minus(ray.origin, self.position)
        b == Vector_dot(l, o_minus_c)
        m == Vector_magnitude(o_minus_c)
    IN (b * b) - ((m * m) - (self.radius * self.radius))

\* the steps of collides_with that read a sqrt or a quotient are exact
CollidesExact(self, ray) ==
    LET o_minus_c == Vector_minus(ray.origin, self.position)
    IN /\ NormaliseExact(ray.direction)
       /\ NormExact(o_minus_c.x, o_minus_c.y, o_minus_c.z)
       /\ (Indicator(self, ray) > 0 => IsSquare(Indicator(self, ray)))

\* collides_with returning the two hits as d1, d2 without min / max
Sphere_collides_with_unsorted(self, ray) ==
    LET l == Vector_normalise(ray.direction)
        o_minus_c == Vector_minus(ray.origin, self.position)
        indicator == Indicator(self, ray)
        b == Vector_dot(l, o_minus_c)
    IN IF indicator = 0
       THEN <<Ray_shine_to(ray, 0 - b)>>
       ELSE IF indicator > 0
       THEN LET d1 == (0 - b) + Sqrt(indicator)
                d2 == (0 - b) - Sqrt(indicator)
            IN IF 0 <= d1 /\ 0 <= d2
               THEN <<Ray_shine_to(ray, d1), Ray_shine_to(ray, d2)>>
               ELSE IF d1 >= 0
               THEN <<Ray_shine_to(ray, d1)>>
               ELSE IF d2 >= 0
               THEN <<Ray_shine_to(ray, d2)>>
               ELSE <<>>
       ELSE <<>>

Sphere_collides_with(self, ray) ==
    LET l == Vector_normalise(ray.direction)
        o_minus_c == Vector_minus(ray.origin, self.position)
        indicator == Indicator(self, ray)
        b == Vector_dot(l, o_minus_c)
    IN IF indicator = 0
       THEN <<Ray_shine_to(ray, 0 - b)>>
       ELSE IF indicator > 0
       THEN LET d1 == (0 - b) + Sqrt(indicator)
                d2 == (0 - b) - Sqrt(indicator)
                min == IF d1 <= d2 THEN d1 ELSE d2
                max == IF d1 <= d2 THEN d2 ELSE d1
            IN IF 0 <= d1 /\ 0 <= d2
               THEN <<Ray_shine_to(ray, min), Ray_shine_to(ray, max)>>
               ELSE IF d1 >= 0
               THEN <<Ray_shine_to(ray, d1)>>
               ELSE IF d2 >= 0
               THEN <<Ray_shine_to(ray, d2)>>
               ELSE <<>>
       ELSE <<>>

(* ------------------------------- Camera ------------------------------- *)

\* const EPSILON: f64 = 0.000000001.  Every distance compared with it is an
\* integer, and for an integer d, d > 1e-9 exactly when d > 0.
EPSILON == 0

Camera_new(width, height, pixels_width, pixels_height) ==
    [plane_z |-> Vector_new(0, 0, 1), plane_x |-> Vector_new(1, 0, 0),
     pos |-> <<0, 0>>, width |-> width, height |-> height,
     pixels_width |-> pixels_width, pixels_height |-> pixels_height]

\* `f as u8`: truncates toward zero and saturates at the ends of 0..255
AsU8(f) == IF f < 0 THEN 0 ELSE IF f > U8Max THEN U8Max ELSE f

\* What a call of cast_ray yields: it returns `value` (occluded: by the
\* `return 0` of the loop), or it panics inside the falloff expression.
Returned(value, occluded) == [panic |-> FALSE, occluded |-> occluded, value |-> value]

Panicked == [panic |-> TRUE, occluded |-> FALSE, value |-> 0]

\* 255 - (25 * (light_distance as u8)) in u8 arithmetic.  The product
\* overflows u8 from 11 on: with overflow checks (the debug profile) the
\* program panics, without them (the release profile) the product wraps.
Falloff(light_distance, overflow_checks) ==
    LET product == 25 * AsU8(light_distance)
    IN IF product > U8Max
       THEN IF overflow_checks
            THEN Panicked
            ELSE Returned(U8Max - (product % (U8Max + 1)), FALSE)
       ELSE Returned(U8Max - product, FALSE)

\* collision.minus(&ray.origin).magnitude()
CollisionDistance(collision, ray) ==
    Vector_magnitude(Vector_minus(collision, ray.origin))

\* some collision of the list passes the test of the inner loop
Occludes(collisions, ray, light_distance) ==
    \E j \in 1..Len(collisions) :
        /\ CollisionDistance(collisions[j], ray) > EPSILON
        /\ CollisionDistance(collisions[j], ray) < light_distance

RECURSIVE CastRayFrom(_, _, _, _, _)
\* the loop of cast_ray from object i on
CastRayFrom(i, ray, light_distance, objects, overflow_checks) ==
    IF i > Len(objects)
    THEN Falloff(light_distance, overflow_checks)
    ELSE IF Occludes(Sphere_collides_with(objects[i], ray), ray, light_distance)
    THEN Returned(0, TRUE)
    ELSE CastRayFrom(i + 1, ray, light_distance, objects, overflow_checks)

Camera_cast_ray(ray, light_distance, objects, overflow_checks) ==
    CastRayFrom(1, ray, light_distance, objects, overflow_checks)

\* every sqrt and quotient cast_ray reads is exact
CastRayExact(ray, objects) ==
    \A i \in 1..Len(objects) :
        /\ CollidesExact(objects[i], ray)
        /\ LET collisions == Sphere_collides_with(objects[i], ray)
           IN \A j \in 1..Len(collisions) :
                LET v == Vector_minus(collisions[j], ray.origin)
                IN NormExact(v.x, v.y, v.z)

(* -------------------------------- Light -------------------------------- *)

Light_new(position, intensity) == [position |-> position, intensity |-> intensity]

(* ------------------------------- state -------------------------------- *)

VARIABLES
    pc,               \* where the running program is
    overflow_checks,  \* the build profile: are integer overflows checked
    vec,              \* the Vector under mutation
    canvas,           \* the Canvas
    ret,              \* the last Canvas call and what it returned
    sphere,           \* the Sphere whose collides_with is called
    ray,              \* the Ray in use (primary ray in raytrace)
    hits,             \* what collides_with returned
    light_distance,   \* the light_distance argument of cast_ray
    result,           \* what cast_ray yielded
    camera,           \* the Scene's Camera
    objects,          \* the Scene's object list (cast_ray's `objects`)
    lights,           \* the Scene's light list
    plane_y,          \* raytrace: cross(plane_z, plane_x)
    offset_x,         \* raytrace: the mutable copy of plane_x
    offset_y,         \* raytrace: the mutable copy of plane_y
    pixel,            \* raytrace: the (x, y) of the iteration
    object,           \* raytrace: index of the object being tested
    light,            \* raytrace: index of the light being evaluated
    collision,        \* raytrace: the primary hit being shaded
    intensity,        \* raytrace: the local `intensity`
    inked             \* raytrace: the canvas.ink calls made so far

vars == <<pc, overflow_checks, vec, canvas, ret, sphere, ray, hits,
          light_distance, result, camera, objects, lights, plane_y, offset_x,
          offset_y, pixel, object, light, collision, intensity, inked>>

\* the value of a variable the running program does not have
Absent == <<>>

vectorVars == <<vec>>
canvasVars == <<canvas, ret>>
sphereVars == <<sphere, hits>>
castVars == <<light_distance, result>>
sceneVars == <<camera, objects, lights>>
loopVars == <<plane_y, offset_x, offset_y, pixel, object, light, collision,
              intensity, inked>>

NoVector == vec = Absent
NoCanvas == canvas = Absent /\ ret = Absent
NoSphere == sphere = Absent /\ hits = Absent
NoCast == light_distance = Absent /\ result = Absent
NoScene == camera = Absent /\ objects = Absent /\ lights = Absent
NoLoop ==
    /\ plane_y = Absent /\ offset_x = Absent /\ offset_y = Absent
    /\ pixel = Absent /\ object = Absent /\ light = Absent
    /\ collision = Absent /\ intensity = Absent /\ inked = Absent

(* ---------------------- the Vector state machine ---------------------- *)

Comps == (0 - MaxComp)..MaxComp

InComps(v) == v.x \in Comps /\ v.y \in Comps /\ v.z \in Comps /\ v.n <= MaxMag

\* the `other` arguments: vectors as Vector::new leaves them
Others == {Vector_new(x, y, z) : x \in Comps, y \in Comps, z \in Comps}

InitVector ==
    /\ pc = "vector"
    /\ overflow_checks = FALSE
    /\ \E x \in Comps, y \in Comps, z \in Comps : vec = Vector_new(x, y, z)
    /\ ray = Absent
    /\ NoCanvas /\ NoSphere /\ NoCast /\ NoScene /\ NoLoop

\* what a Vector mutator leaves alone
VectorFrame ==
    /\ UNCHANGED <<pc, overflow_checks, ray>>
    /\ UNCHANGED <<canvasVars, sphereVars, castVars, sceneVars, loopVars>>

\* Each mutator acts when its result stays in the explored range and, where
\* it recomputes the magnitude, the root is exact.
Cross ==
    /\ pc = "vector"
    /\ \E other \in Others :
          LET v == Vector_cross(vec, other)
          IN InComps(v) /\ NormExact(v.x, v.y, v.z) /\ vec' = v
    /\ VectorFrame

Add ==
    /\ pc = "vector"
    /\ \E other \in Others :
          LET v == Vector_add(vec, other)
          IN InComps(v) /\ NormExact(v.x, v.y, v.z) /\ vec' = v
    /\ VectorFrame

Minus ==
    /\ pc = "vector"
    /\ \E other \in Others :
          LET v == Vector_minus(vec, other)
          IN InComps(v) /\ NormExact(v.x, v.y, v.z) /\ vec' = v
    /\ VectorFrame

Mult ==
    /\ pc = "vector"
    /\ \E magnitude \in Comps :
          LET v == Vector_mult(vec, magnitude)
          IN InComps(v) /\ vec' = v
    /\ VectorFrame

Normalise ==
    /\ pc = "vector"
    /\ NormaliseExact(vec)
    /\ vec' = Vector_normalise(vec)
    /\ VectorFrame

Set ==
    /\ pc = "vector"
    /\ \E x \in Comps, y \in Comps, z \in Comps :
          LET v == Vector_set(vec, x, y, z)
          IN NormExact(v.x, v.y, v.z) /\ vec' = v
    /\ VectorFrame

SetAs ==
    /\ pc = "vector"
    /\ \E other \in Others : vec' = Vector_set_as(vec, other)
    /\ VectorFrame

NextVector == Cross \/ Add \/ Minus \/ Mult \/ Normalise \/ Set \/ SetAs

SpecVector == InitVector /\ [][NextVector]_vars

(* ---------------------- the Canvas state machine ---------------------- *)

Sides == 1..MaxDim

\* coordinates tried: every cell of the largest canvas and one beyond
Coords == 0..MaxDim

Intensities == {0, 128}

InitCanvas ==
    /\ pc = "canvas"
    /\ overflow_checks = FALSE
    /\ \E width \in Sides, height \in Sides : canvas = Canvas_new(width, height)
    /\ ret = [op |-> "new", x |-> 0, y |-> 0, some |-> TRUE, before |-> Absent]
    /\ ray = Absent
    /\ NoVector /\ NoSphere /\ NoCast /\ NoScene /\ NoLoop

Get ==
    /\ pc = "canvas"
    /\ \E x \in Coords, y \in Coords :
          ret' = [op |-> "get", x |-> x, y |-> y,
                  some |-> (Canvas_get(canvas, x, y) # <<>>), before |-> canvas]
    /\ UNCHANGED <<pc, overflow_checks, canvas, ray>>
    /\ UNCHANGED <<vectorVars, sphereVars, castVars, sceneVars, loopVars>>

Ink ==
    /\ pc = "canvas"
    /\ \E x \in Coords, y \in Coords, i \in Intensities :
          /\ canvas' = Canvas_ink(canvas, x, y, i).canvas
          /\ ret' = [op |-> "ink", x |-> x, y |-> y,
                     some |-> Canvas_ink(canvas, x, y, i).ret, before |-> canvas]
    /\ UNCHANGED <<pc, overflow_checks, ray>>
    /\ UNCHANGED <<vectorVars, sphereVars, castVars, sceneVars, loopVars>>

NextCanvas == Get \/ Ink

SpecCanvas == InitCanvas /\ [][NextCanvas]_vars

(* ------------------ Sphere::collides_with on its inputs ---------------- *)

Coordinates == (0 - MaxCoord)..MaxCoord

Radii == 1..MaxRadius

\* the unit directions of the integer lattice
UnitDirections ==
    {Vector_new(1, 0, 0), Vector_new(0 - 1, 0, 0), Vector_new(0, 1, 0),
     Vector_new(0, 0 - 1, 0), Vector_new(0, 0, 1), Vector_new(0, 0, 0 - 1)}

RayOrigins == {Vector_new(0, 0, 0), Vector_new(1, 0, 0)}

InitSphere ==
    /\ pc = "sphere"
    /\ overflow_checks = FALSE
    /\ \E x \in Coordinates, y \in Coordinates, z \in Coordinates, r \in Radii :
          sphere = Sphere_new(Vector_new(x, y, z), r)
    /\ \E origin \in RayOrigins, direction \in UnitDirections :
          ray = Ray_new(origin, direction)
    /\ hits = <<>>
    /\ NoVector /\ NoCanvas /\ NoCast /\ NoScene /\ NoLoop

Collide ==
    /\ pc = "sphere"
    /\ CollidesExact(sphere, ray)
    /\ hits' = Sphere_collides_with(sphere, ray)
    /\ pc' = "collided"
    /\ UNCHANGED <<overflow_checks, sphere, ray>>
    /\ UNCHANGED <<vectorVars, canvasVars, castVars, sceneVars, loopVars>>

NextSphere == Collide

SpecSphere == InitSphere /\ [][NextSphere]_vars

(* --------------------- Camera::cast_ray on its inputs ------------------ *)

\* occluders on and beside the line of the shadow ray
CastSpheres ==
    {Sphere_new(Vector_new(x, 0, z), r) :
        x \in {0, 3}, z \in Coordinates, r \in {1, 3}}

RECURSIVE ListsUpTo(_, _)
\* the sequences over S of length at most k
ListsUpTo(S, k) ==
    IF k = 0
    THEN {<<>>}
    ELSE LET shorter == ListsUpTo(S, k - 1)
         IN shorter \cup {Append(l, e) : l \in shorter, e \in S}

InitCast ==
    /\ pc = "cast"
    /\ overflow_checks \in BOOLEAN
    /\ \E direction \in {Vector_new(0, 0, 1), Vector_new(0, 0, 0 - 1)} :
          ray = Ray_new(Vector_new(0, 0, 0), direction)
    /\ light_distance \in 0..MaxLightDistance
    /\ objects \in ListsUpTo(CastSpheres, MaxObjects)
    /\ result = Absent
    /\ camera = Absent /\ lights = Absent
    /\ NoVector /\ NoCanvas /\ NoSphere /\ NoLoop

CastRay ==
    /\ pc = "cast"
    /\ CastRayExact(ray, objects)
    /\ result' = Camera_cast_ray(ray, light_distance, objects, overflow_checks)
    /\ pc' = "cast_done"
    /\ UNCHANGED <<overflow_checks, ray, light_distance, camera, objects, lights>>
    /\ UNCHANGED <<vectorVars, canvasVars, sphereVars, loopVars>>

NextCast == CastRay

SpecCast == InitCast /\ [][NextCast]_vars

(* -------------------- Scene and Camera::raytrace ----------------------- *)

Scene_new(c) == [objects |-> <<>>, lights |-> <<>>, camera |-> c]

Scene_add_object(objs, o) == Append(objs, o)

Scene_add_light(ls, l) == Append(ls, l)

\* The scenes explored.  The camera's image plane is 4 wide and 3 high per
\* pixel, so the primary rays start at (4x, 3y, 0) and run along (0,0,1);
\* the spheres and lights sit where those rays meet them at exact
\* distances.
SceneSpheres ==
    {Sphere_new(Vector_new(0, 0, 0), 1), Sphere_new(Vector_new(0, 0, 3), 1),
     Sphere_new(Vector_new(4, 0, 0), 1)}

SceneLights ==
    {Light_new(Vector_new(0, 0, 4), 1), Light_new(Vector_new(0, 0, 13), 1)}

Pixels == 1..MaxPixels

Init ==
    /\ pc = "build"
    /\ overflow_checks \in BOOLEAN
    /\ \E pixels_width \in Pixels, pixels_height \in Pixels :
          camera = Scene_new(Camera_new(4 * pixels_width, 3 * pixels_height,
                                        pixels_width, pixels_height)).camera
    /\ objects = Scene_new(camera).objects
    /\ lights = Scene_new(camera).lights
    /\ canvas = Absent /\ ret = Absent
    /\ ray = Absent
    /\ light_distance = Absent /\ result = Absent
    /\ NoVector /\ NoSphere /\ NoLoop

AddObject ==
    /\ pc = "build"
    /\ Len(objects) < MaxObjects
    /\ \E o \in SceneSpheres : objects' = Scene_add_object(objects, o)
    /\ UNCHANGED <<pc, overflow_checks, ray, camera, lights>>
    /\ UNCHANGED <<vectorVars, canvasVars, sphereVars, castVars, loopVars>>

AddLight ==
    /\ pc = "build"
    /\ Len(lights) < MaxLights
    /\ \E l \in SceneLights : lights' = Scene_add_light(lights, l)
    /\ UNCHANGED <<pc, overflow_checks, ray, camera, objects>>
    /\ UNCHANGED <<vectorVars, canvasVars, sphereVars, castVars, loopVars>>

\* the locals width_step and height_step of raytrace
WidthStep == Quot(camera.width, camera.pixels_width)

HeightStep == Quot(camera.height, camera.pixels_height)

\* iproduct!(0..pixels_width, 0..pixels_height): x outermost
LastPixel(p) == p[1] + 1 = camera.pixels_width /\ p[2] + 1 = camera.pixels_height

NextPixel(p) ==
    IF p[2] + 1 < camera.pixels_height THEN <<p[1], p[2] + 1>> ELSE <<p[1] + 1, 0>>

\* what the steps of raytrace leave alone
LoopFrame ==
    /\ UNCHANGED <<overflow_checks, ret, camera, objects, lights, plane_y>>
    /\ UNCHANGED <<vectorVars, sphereVars, castVars>>

\* Scene::raytrace -> Camera::raytrace, up to the pixel loop
Raytrace ==
    /\ pc = "build"
    /\ Divides(camera.pixels_width, camera.width)
    /\ Divides(camera.pixels_height, camera.height)
    /\ canvas' = Canvas_new(camera.pixels_width, camera.pixels_height)
    /\ plane_y' = Vector_cross(camera.plane_z, camera.plane_x)
    /\ ray' = Ray_new(Vector_new(0, 0, 0), camera.plane_z)
    /\ offset_x' = camera.plane_x
    /\ offset_y' = plane_y'
    /\ pixel' = <<0, 0>>
    /\ object' = 0 /\ light' = 0
    /\ collision' = Absent
    /\ intensity' = 0
    /\ inked' = <<>>
    /\ pc' = "pixel"
    /\ UNCHANGED <<overflow_checks, ret, camera, objects, lights>>
    /\ UNCHANGED <<vectorVars, sphereVars, castVars>>

\* the two ray.origin.add(...) lines opening an iteration
BeginPixel ==
    /\ pc = "pixel"
    /\ LET ox == Vector_mult(offset_x, pixel[1] * WidthStep)
           oy == Vector_mult(offset_y, pixel[2] * HeightStep)
       IN /\ offset_x' = ox
          /\ offset_y' = oy
          /\ ray' = [ray EXCEPT !.origin = Vector_add(Vector_add(@, ox), oy)]
    /\ object' = 1
    /\ pc' = "object"
    /\ UNCHANGED <<canvas, pixel, light, collision, intensity, inked>>
    /\ LoopFrame

\* `for object in objects.iter()`: object.collides_with(&ray).first() is Some
Collision ==
    /\ pc = "object"
    /\ object <= Len(objects)
    /\ CollidesExact(objects[object], ray)
    /\ Sphere_collides_with(objects[object], ray) # <<>>
    /\ collision' = Head(Sphere_collides_with(objects[object], ray))
    /\ intensity' = 0
    /\ light' = 1
    /\ pc' = "light"
    /\ UNCHANGED <<canvas, ray, offset_x, offset_y, pixel, object, inked>>
    /\ LoopFrame

\* ... is None: on to the next object
NoCollision ==
    /\ pc = "object"
    /\ object <= Len(objects)
    /\ CollidesExact(objects[object], ray)
    /\ Sphere_collides_with(objects[object], ray) = <<>>
    /\ object' = object + 1
    /\ UNCHANGED <<pc, canvas, ray, offset_x, offset_y, pixel, light, collision,
                   intensity, inked>>
    /\ LoopFrame

\* the object loop ends without a hit
NoObjectHit ==
    /\ pc = "object"
    /\ object > Len(objects)
    /\ pc' = "reset"
    /\ UNCHANGED <<canvas, ray, offset_x, offset_y, pixel, object, light,
                   collision, intensity, inked>>
    /\ LoopFrame

\* dir = light.position - collision, before it is normalised
ToLight(l, c) == Vector_minus(l.position, c)

\* the shadow ray of one iteration of the light loop
ShadowRay(l, c) == Ray_new(c, Vector_normalise(ToLight(l, c)))

\* the square root and the quotients of one light iteration are exact
ShadeExact(l, c) ==
    /\ NormExact(ToLight(l, c).x, ToLight(l, c).y, ToLight(l, c).z)
    /\ NormaliseExact(ToLight(l, c))
    /\ CastRayExact(ShadowRay(l, c), objects)

\* what cast_ray yields for light l at the hit c
Shade(l, c) ==
    Camera_cast_ray(ShadowRay(l, c), Vector_magnitude(ToLight(l, c)),
                    objects, overflow_checks)

\* the light iteration keeping the brightest value instead of assigning
ShadeLight_brightest ==
    /\ pc = "light"
    /\ light <= Len(lights)
    /\ ShadeExact(lights[light], collision)
    /\ ~Shade(lights[light], collision).panic
    /\ intensity' = IF Shade(lights[light], collision).value > intensity
                    THEN Shade(lights[light], collision).value
                    ELSE intensity
    /\ light' = light + 1
    /\ UNCHANGED <<pc, canvas, ray, offset_x, offset_y, pixel, object,
                   collision, inked>>
    /\ LoopFrame

\* one iteration of `for light in lights.iter()`: intensity = cast_ray(...)
ShadeLight ==
    /\ pc = "light"
    /\ light <= Len(lights)
    /\ ShadeExact(lights[light], collision)
    /\ ~Shade(lights[light], collision).panic
    /\ intensity' = Shade(lights[light], collision).value
    /\ light' = light + 1
    /\ UNCHANGED <<pc, canvas, ray, offset_x, offset_y, pixel, object,
                   collision, inked>>
    /\ LoopFrame

\* the same iteration when cast_ray panics: the program aborts
ShadePanics ==
    /\ pc = "light"
    /\ light <= Len(lights)
    /\ ShadeExact(lights[light], collision)
    /\ Shade(lights[light], collision).panic
    /\ pc' = "panicked"
    /\ UNCHANGED <<canvas, ray, offset_x, offset_y, pixel, object, light,
                   collision, intensity, inked>>
    /\ LoopFrame

\* the ink call without the `break`: the object loop goes on
InkPixel_no_break ==
    /\ pc = "light"
    /\ light > Len(lights)
    /\ canvas' = Canvas_ink(canvas, pixel[1], pixel[2], intensity).canvas
    /\ inked' = Append(inked,
                       [x |-> pixel[1], y |-> pixel[2], intensity |-> intensity,
                        ret |-> Canvas_ink(canvas, pixel[1], pixel[2], intensity).ret,
                        object |-> object, collision |-> collision])
    /\ object' = object + 1
    /\ pc' = "object"
    /\ UNCHANGED <<ray, offset_x, offset_y, pixel, light, collision, intensity>>
    /\ LoopFrame

\* canvas.ink(x, y, intensity); break
InkPixel ==
    /\ pc = "light"
    /\ light > Len(lights)
    /\ canvas' = Canvas_ink(canvas, pixel[1], pixel[2], intensity).canvas
    /\ inked' = Append(inked,
                       [x |-> pixel[1], y |-> pixel[2], intensity |-> intensity,
                        ret |-> Canvas_ink(canvas, pixel[1], pixel[2], intensity).ret,
                        object |-> object, collision |-> collision])
    /\ pc' = "reset"
    /\ UNCHANGED <<ray, offset_x, offset_y, pixel, object, light, collision,
                   intensity>>
    /\ LoopFrame

\* the three lines closing an iteration, and the step of the pixel loop
ResetRay ==
    /\ pc = "reset"
    /\ ray' = [ray EXCEPT !.origin = Vector_set(@, 0, 0, 0)]
    /\ offset_x' = Vector_set_as(offset_x, camera.plane_x)
    /\ offset_y' = Vector_set_as(offset_y, plane_y)
    /\ IF LastPixel(pixel)
       THEN pc' = "done" /\ pixel' = pixel
       ELSE pc' = "pixel" /\ pixel' = NextPixel(pixel)
    /\ UNCHANGED <<canvas, object, light, collision, intensity, inked>>
    /\ LoopFrame

Next ==
    \/ AddObject \/ AddLight \/ Raytrace
    \/ BeginPixel \/ Collision \/ NoCollision \/ NoObjectHit
    \/ ShadeLight \/ ShadePanics \/ InkPixel \/ ResetRay

Spec == Init /\ [][Next]_vars

(* ------------------------------ the claims ----------------------------- *)

\* x*x + y*y + z*z of a vector's current components
SumSq(v) == (v.x * v.x) + (v.y * v.y) + (v.z * v.z)

\* C1: the cached value magnitude() returns is the Euclidean norm of the
\* vector's current components, from construction on and after every
\* mutator: it is non-negative and its square is x*x + y*y + z*z.
C1_MagnitudeIsNorm ==
    pc = "vector" =>
        /\ Vector_magnitude(vec) >= 0
        /\ Vector_magnitude(vec) * Vector_magnitude(vec) = SumSq(vec)

\* 255 - 25 * d clamped to 0..255
ClampedFalloff(d) ==
    IF 25 * d >= 255 THEN 0 ELSE 255 - (25 * d)

\* C2: for an unoccluded shadow ray cast_ray returns 255 - 25 *
\* floor(light_distance) clamped to 0..255 (0 from 11 on), and never
\* overflows, wraps or aborts.
C2_FalloffClamped ==
    (pc = "cast_done" /\ ~result.occluded) =>
        /\ ~result.panic
        /\ result.value = ClampedFalloff(light_distance)

\* C3: get(x, y) and ink(x, y, v) succeed exactly when x < pixel_width and
\* y < pixel_height; any other call reports absence / false and leaves
\* every cell unchanged.
C3_InRangeExactly ==
    (pc = "canvas" /\ ret.op \in {"get", "ink"}) =>
        /\ ret.some <=> (ret.x < canvas.width /\ ret.y < canvas.height)
        /\ ~ret.some => canvas = ret.before

\* the point origin + d * direction of a ray
PointAt(r, d) ==
    <<r.origin.x + (d * r.direction.x), r.origin.y + (d * r.direction.y),
      r.origin.z + (d * r.direction.z)>>

\* no hit the explored spheres can produce lies farther than this
Reach == (4 * (MaxCoord + 1)) + MaxRadius

\* C4: every hit collides_with returns is origin + d * direction for some
\* d >= 0, in every branch of the discriminant: no hit behind the origin.
C4_HitsInFront ==
    pc = "collided" =>
        \A i \in 1..Len(hits) :
            \E d \in 0..Reach : Components(hits[i]) = PointAt(ray, d)

\* the ray starts outside the sphere and points at its centre, k away
AimedAtCentre(s, r, k) ==
    /\ Components(s.position) = PointAt(r, k)
    /\ k > s.radius

\* C5: a ray from outside the sphere aimed at its centre gets exactly two
\* hits, at |origin - c| - r and |origin - c| + r, the nearer one first.
C5_TwoHitsNearestFirst ==
    pc = "collided" =>
        \A k \in 1..Reach :
            AimedAtCentre(sphere, ray, k) =>
                /\ Len(hits) = 2
                /\ Components(hits[1]) = PointAt(ray, k - sphere.radius)
                /\ Components(hits[2]) = PointAt(ray, k + sphere.radius)

\* C5's case: the scenario sphere (0,0,5) radius 1, ray from (0,0,0) along
\* (0,0,1), answered with the hits at 4 and 6.
C5_Witness ==
    /\ pc = "collided"
    /\ sphere = Sphere_new(Vector_new(0, 0, 5), 1)
    /\ ray = Ray_new(Vector_new(0, 0, 0), Vector_new(0, 0, 1))
    /\ Len(hits) = 2
    /\ Components(hits[1]) = <<0, 0, 4>>
    /\ Components(hits[2]) = <<0, 0, 6>>

\* the point p lies on the surface of sphere s
OnSphere(p, s) ==
    ((p[1] - s.position.x) * (p[1] - s.position.x))
    + ((p[2] - s.position.y) * (p[2] - s.position.y))
    + ((p[3] - s.position.z) * (p[3] - s.position.z))
    = s.radius * s.radius

\* some sphere of the list meets the ray at a distance d from its origin
\* with EPSILON < d < light_distance
MeetsBeforeLight(r, ld, objs) ==
    \E i \in 1..Len(objs) :
        \E d \in (EPSILON + 1)..(ld - 1) : OnSphere(PointAt(r, d), objs[i])

\* C6: cast_ray yields 0 when some sphere of the list meets the shadow ray
\* at a distance strictly between EPSILON and light_distance, and otherwise
\* yields the falloff value, never the occluded one.
C6_OccludedExactly ==
    pc = "cast_done" =>
        /\ MeetsBeforeLight(ray, light_distance, objects) =>
              (~result.panic /\ result.value = 0)
        /\ ~MeetsBeforeLight(ray, light_distance, objects) => ~result.occluded

\* raytrace has built its canvas
Rendering == pc \in {"pixel", "object", "light", "reset", "done", "panicked"}

\* the pixels of the camera, as (x, y) pairs
CameraPixels ==
    {<<x, y>> : x \in 0..(camera.pixels_width - 1),
                y \in 0..(camera.pixels_height - 1)}

\* the primary ray of pixel p: from plane_x * (x * width_step)
\* + plane_y * (y * height_step), along plane_z
PrimaryRay(p) ==
    LET px == camera.plane_x
        py == Vector_cross(camera.plane_z, camera.plane_x)
        a == p[1] * WidthStep
        b == p[2] * HeightStep
    IN Ray_new(Vector_new((a * px.x) + (b * py.x), (a * px.y) + (b * py.y),
                          (a * px.z) + (b * py.z)),
               camera.plane_z)

\* object i of the list reports a hit of pixel p's primary ray
HitBy(p, i) == Sphere_collides_with(objects[i], PrimaryRay(p)) # <<>>

HasPrimaryHit(p) == \E i \in 1..Len(objects) : HitBy(p, i)

\* the iteration of pixel p is over
Finished(p) ==
    \/ pc = "done"
    \/ p[1] < pixel[1]
    \/ p[1] = pixel[1] /\ p[2] < pixel[2]
    \/ p = pixel /\ pc = "reset"

\* C7: after raytrace every pixel (x, y) of the camera whose primary ray
\* hits no sphere holds the default 255 in its cell canvas.get(x, y).
C7_NoHitStaysWhite ==
    pc = "done" =>
        \A p \in CameraPixels :
            ~HasPrimaryHit(p) =>
                Canvas_get(canvas, p[1], p[2]) = <<Pixel_white>>

\* how far along ray r the point h lies
DistanceAlong(r, h) == Vector_dot(Vector_minus(h, r.origin), r.direction)

\* the ink call e shades the nearest hit of the first object, in list
\* order, that the pixel's primary ray hits
ShadesFirstInOrder(e) ==
    LET r == PrimaryRay(<<e.x, e.y>>)
    IN /\ e.object \in 1..Len(objects)
       /\ HitBy(<<e.x, e.y>>, e.object)
       /\ \A j \in 1..(e.object - 1) : ~HitBy(<<e.x, e.y>>, j)
       /\ Components(e.collision)
            = Components(Head(Sphere_collides_with(objects[e.object], r)))

C9_LastLightAlone ==
    Rendering =>
        \A k \in 1..Len(inked) :
            lights # <<>> =>
                /\ ~Shade(lights[Len(lights)], inked[k].collision).panic
                /\ inked[k].intensity
                     = Shade(lights[Len(lights)], inked[k].collision).value

\* C9's case: two lights whose cast_ray results differ at the hit, and the
\* pixel inked with the second one's.
C9_Witness ==
    /\ Rendering
    /\ Len(lights) = 2
    /\ \E k \in 1..Len(inked) :
          /\ Shade(lights[1], inked[k].collision).value
               # Shade(lights[2], inked[k].collision).value
          /\ inked[k].intensity = Shade(lights[2], inked[k].collision).value

\* C10: every canvas.ink call raytrace makes for a pixel of the camera
\* returns true, at every resolution, square or not.
C10_InkSucceeds ==
    Rendering => \A k \in 1..Len(inked) : inked[k].ret

====
